---- MODULE Spec2Model ----
(***************************************************************************)
(* Model of bricks/_common/manifest.py: the build manifest that includes   *)
(* the uasyncio manifest and freezes every entry of ./modules whose name   *)
(* matches *.py.                                                           *)
(*                                                                         *)
(* A file name is a sequence of one-character strings, a path is the       *)
(* sequence of its components (pathlib's `parts`), the filesystem is a set *)
(* of entries [parts, kind].  The host functions include and freeze_as_mpy *)
(* are external: each call either returns or raises.                       *)
(***************************************************************************)
EXTENDS Integers, Sequences, FiniteSets, TLC

VARIABLES fs, pc, scanned, scandir, modules, i, calls, out, err

vars == <<fs, pc, scanned, scandir, modules, i, calls, out, err>>

(* Largest number of entries directly inside ./modules in an initial filesystem. *)
MaxEntries == 3

----------------------------------------------------------------------------
(* Literals of the script *)

(* "./modules/uasyncio", the argument of include (line 6) *)
IncludePath == "./modules/uasyncio"

(* "./modules", the argument of pathlib.Path (line 8) *)
ModulesDir == <<".", "/", "m", "o", "d", "u", "l", "e", "s">>

(* "*.py", the argument of glob (line 8) *)
Pattern == <<"*", ".", "p", "y">>

----------------------------------------------------------------------------
(* Names that may exist on disk *)

NameModules == <<"m", "o", "d", "u", "l", "e", "s">>
NameAPy == <<"a", ".", "p", "y">>
NameBPy == <<"b", ".", "p", "y">>
NameCTxt == <<"c", ".", "t", "x", "t">>
NameApy == <<"a", "p", "y">>
NamePkgPy == <<"p", "k", "g", ".", "p", "y">>
NameUasyncio == <<"u", "a", "s", "y", "n", "c", "i", "o">>
NameCorePy == <<"c", "o", "r", "e", ".", "p", "y">>
NameXPy == <<"x", ".", "p", "y">>

ChildNames == {NameAPy, NameBPy, NameCTxt, NameApy, NamePkgPy, NameUasyncio}

KindOf(name) == IF name \in {NamePkgPy, NameUasyncio} THEN "dir" ELSE "file"

----------------------------------------------------------------------------
(* pathlib *)

RECURSIVE SplitFrom(_, _)
SplitFrom(s, cur) ==
    IF s = <<>> THEN <<cur>>
    ELSE IF Head(s) = "/" THEN <<cur>> \o SplitFrom(Tail(s), <<>>)
    ELSE SplitFrom(Tail(s), Append(cur, Head(s)))

IsRealComponent(c) == c # <<>> /\ c # <<".">>

(* A mis-parse that keeps the "." component of "./modules". *)
PathParts_KeepDot(raw) == SelectSeq(SplitFrom(raw, <<>>), LAMBDA c : c # <<>>)

(* pathlib.Path(raw).parts for a relative path: split on "/", drop "" and "." *)
PathParts(raw) == SelectSeq(SplitFrom(raw, <<>>), IsRealComponent)

(* A matcher in which "*" swallows the rest of the pattern. *)
RECURSIVE Match_StarOnly(_, _)
Match_StarOnly(pat, name) ==
    IF pat = <<>> THEN name = <<>>
    ELSE IF Head(pat) = "*" THEN TRUE
    ELSE name # <<>> /\ Head(name) = Head(pat) /\ Match_StarOnly(Tail(pat), Tail(name))

(* fnmatch of a whole name against a pattern of literals and "*" *)
RECURSIVE Match(_, _)
Match(pat, name) ==
    IF pat = <<>> THEN name = <<>>
    ELSE IF Head(pat) = "*"
         THEN Match(Tail(pat), name) \/ (name # <<>> /\ Match(pat, Tail(name)))
         ELSE name # <<>> /\ Head(name) = Head(pat) /\ Match(Tail(pat), Tail(name))

(* index of the last "." of a name, 0 if there is none (str.rfind + 1) *)
RECURSIVE LastDot(_)
LastDot(name) ==
    IF name = <<>> THEN 0
    ELSE IF name[Len(name)] = "." THEN Len(name)
    ELSE LastDot(SubSeq(name, 1, Len(name) - 1))

(* PurePath.stem: the name without its last suffix *)
Stem(name) ==
    LET d == LastDot(name)
    IN  IF 1 < d /\ d < Len(name) THEN SubSeq(name, 1, d - 1) ELSE name

IsPrefix(p, q) == Len(p) <= Len(q) /\ SubSeq(q, 1, Len(p)) = p

(* the operating system's view of a relative path: "." names the directory itself *)
Resolve(parts) == SelectSeq(parts, LAMBDA c : c # <<".">>)

Exists(parts) == \E e \in fs : e.parts = Resolve(parts)

IsDir(parts) == \E e \in fs : e.parts = Resolve(parts) /\ e.kind = "dir"

(* the entries directly inside the directory `parent` *)
Children(parent) ==
    {e \in fs : Len(e.parts) = Len(Resolve(parent)) + 1 /\ IsPrefix(Resolve(parent), e.parts)}

ChildNamesOf(parent) == {e.parts[Len(e.parts)] : e \in Children(parent)}

(* every order in which os.scandir may return the names of S *)
Orders(S) ==
    {s \in [1..Cardinality(S) -> S] : \A x \in S : \E k \in 1..Cardinality(S) : s[k] = x}

RECURSIVE Reverse(_)
Reverse(s) == IF s = <<>> THEN <<>> ELSE Append(Reverse(Tail(s)), Head(s))

JoinAll(parent, names) == [k \in 1..Len(names) |-> Append(parent, names[k])]

(* A glob that raises when its directory cannot be listed. *)
Glob_Raising(parent, listing) ==
    IF ~IsDir(parent)
    THEN [raised |-> TRUE, items |-> <<>>]
    ELSE [raised |-> FALSE,
          items |-> JoinAll(parent, SelectSeq(listing, LAMBDA n : Match(Pattern, n)))]

(* A glob that yields its matches in reverse listing order. *)
Glob_Reversed(parent, listing) ==
    IF ~IsDir(parent)
    THEN [raised |-> FALSE, items |-> <<>>]
    ELSE [raised |-> FALSE,
          items |-> JoinAll(parent, Reverse(SelectSeq(listing, LAMBDA n : Match(Pattern, n))))]

(* list(Path(parent).glob(Pattern)): nothing when parent is not a directory, *)
(* else parent/name for each listed name that matches, in listing order      *)
Glob(parent, listing) ==
    IF ~IsDir(parent)
    THEN [raised |-> FALSE, items |-> <<>>]
    ELSE [raised |-> FALSE,
          items |-> JoinAll(parent, SelectSeq(listing, LAMBDA n : Match(Pattern, n)))]

(* A Path that is falsy. *)
Truthy_Falsy(p) == Len(p) = 0

(* bool(path): PurePath defines neither __bool__ nor __len__ *)
Truthy(p) == TRUE

(* any(modules) *)
AnyModules(ms) == \E k \in 1..Len(ms) : Truthy(ms[k])

----------------------------------------------------------------------------
(* Host calls *)

Call(fn, args, raised) == [fn |-> fn, args |-> args, raised |-> raised]

(* A call site wrapped in a handler that swallows the exception. *)
AfterCall_Swallow(raised, next) == next

(* where control goes after a call statement outside any try block *)
AfterCall(raised, next) == IF raised THEN "aborted" ELSE next

(* Arguments built from the stem instead of the file name. *)
FreezeArgs_Stem(path, file) == <<path, Stem(file)>>

(* the arguments of freeze_as_mpy(path, file) *)
FreezeArgs(path, file) == <<path, file>>

----------------------------------------------------------------------------
(* State machine *)

InitialFs(top, names, core, x) ==
    (IF top = "absent" THEN {} ELSE {[parts |-> <<NameModules>>, kind |-> top]})
    \cup {[parts |-> <<NameModules, n>>, kind |-> KindOf(n)] : n \in names}
    \cup (IF core THEN {[parts |-> <<NameModules, NameUasyncio, NameCorePy>>, kind |-> "file"]}
          ELSE {})
    \cup (IF x THEN {[parts |-> <<NameXPy>>, kind |-> "file"]} ELSE {})

Init ==
    /\ \E top \in {"absent", "file", "dir"}, names \in SUBSET ChildNames,
          core \in BOOLEAN, x \in BOOLEAN :
          /\ Cardinality(names) <= MaxEntries
          /\ top # "dir" => names = {}
          /\ core => NameUasyncio \in names
          /\ fs = InitialFs(top, names, core, x)
    /\ pc = "include"
    /\ scanned = FALSE
    /\ scandir = <<>>
    /\ modules = <<>>
    /\ i = 1
    /\ calls = <<>>
    /\ out = <<>>
    /\ err = "none"

(* line 6: include("./modules/uasyncio") *)
Include ==
    /\ pc = "include"
    /\ \E raised \in BOOLEAN :
          /\ calls' = Append(calls, Call("include", <<IncludePath>>, raised))
          /\ pc' = AfterCall(raised, "scan")
          /\ err' = IF raised THEN "HostError" ELSE err
    /\ UNCHANGED <<fs, scanned, scandir, modules, i, out>>

(* line 8: modules = list(pathlib.Path("./modules").glob("*.py")) *)
Scan ==
    /\ pc = "scan"
    /\ \E listing \in Orders(ChildNamesOf(PathParts(ModulesDir))) :
          LET r == Glob(PathParts(ModulesDir), listing)
          IN  /\ scandir' = listing
              /\ IF r.raised
                 THEN /\ pc' = "aborted"
                      /\ err' = "OSError"
                      /\ UNCHANGED <<scanned, modules>>
                 ELSE /\ pc' = "guard"
                      /\ scanned' = TRUE
                      /\ modules' = r.items
                      /\ UNCHANGED err
    /\ UNCHANGED <<fs, i, calls, out>>

(* line 10: if any(modules) *)
Guard ==
    /\ pc = "guard"
    /\ pc' = IF AnyModules(modules) THEN "loop" ELSE "done"
    /\ UNCHANGED <<fs, scanned, scandir, modules, i, calls, out, err>>

(* the loop body with the bindings of one iteration *)
Iterate(m, modulesNext, iNext) ==
    /\ modules' = modulesNext
    /\ IF Len(m) # 2
       THEN (* line 13 raises ValueError after the print of line 12 *)
            /\ out' = Append(out, <<"INCLUDING", m>>)
            /\ pc' = "aborted"
            /\ err' = "ValueError"
            /\ UNCHANGED <<i, calls>>
       ELSE LET path == m[1]
                file == m[2]
            IN  \E raised \in BOOLEAN :
                  /\ out' = out \o << <<"INCLUDING", m>>, <<"Including", Stem(file)>> >>
                  /\ calls' = Append(calls, Call("freeze_as_mpy", FreezeArgs(path, file), raised))
                  /\ pc' = AfterCall(raised, "loop")
                  /\ err' = IF raised THEN "HostError" ELSE err
                  /\ i' = iNext
    /\ UNCHANGED <<fs, scanned, scandir>>

(* A loop that consumes the list it iterates over. *)
LoopBody_Consuming ==
    /\ pc = "loop"
    /\ modules # <<>>
    /\ Iterate(Head(modules), Tail(modules), i)

(* lines 11-15: one iteration of `for m in modules` *)
LoopBody ==
    /\ pc = "loop"
    /\ i <= Len(modules)
    /\ Iterate(modules[i], modules, i + 1)

(* A loop that starts over when the list is exhausted. *)
LoopExit_Again ==
    /\ pc = "loop"
    /\ i > Len(modules)
    /\ i' = 1
    /\ UNCHANGED <<fs, pc, scanned, scandir, modules, calls, out, err>>

(* line 11: the iterator is exhausted, the script ends *)
LoopExit ==
    /\ pc = "loop"
    /\ i > Len(modules)
    /\ pc' = "done"
    /\ UNCHANGED <<fs, scanned, scandir, modules, i, calls, out, err>>

Next == Include \/ Scan \/ Guard \/ LoopBody \/ LoopExit

Spec == Init /\ [][Next]_vars

(* the interpreter runs the script without suspension *)
FairSpec == Spec /\ WF_vars(Next)

----------------------------------------------------------------------------
(* Properties *)

Terminated == pc \in {"done", "aborted"}

FreezeCalls == SelectSeq(calls, LAMBDA c : c.fn = "freeze_as_mpy")

IncludeCalls == SelectSeq(calls, LAMBDA c : c.fn = "include")

(* a name matches *.py when it ends with the three characters ".py" *)
EndsWithDotPy(name) ==
    Len(name) >= 3 /\ SubSeq(name, Len(name) - 2, Len(name)) = <<".", "p", "y">>

(* the entries directly inside modules/ whose name matches *.py *)
MatchingEntries == {e \in fs : Len(e.parts) = 2 /\ e.parts[1] = NameModules
                                /\ EndsWithDotPy(e.parts[2])}

MatchingFiles == {e \in MatchingEntries : e.kind = "file"}

(* the matching names in the order in which the enumeration returned them *)
EnumeratedMatches == SelectSeq(scandir, EndsWithDotPy)

(* C1: a completed evaluation over a directory holding N regular files that *)
(* match *.py has emitted exactly one include call, for the fixed path, and *)
(* exactly N freeze_as_mpy calls.                                           *)
C1_CallCount ==
    pc = "done" =>
        /\ Len(IncludeCalls) = 1
        /\ IncludeCalls[1].args = <<IncludePath>>
        /\ Len(FreezeCalls) = Cardinality(MatchingFiles)

(* C2: every freeze_as_mpy call has the parent directory name "modules" as  *)
(* first argument and the matched entry's full name, extension included, as *)
(* second argument.                                                         *)
C2_FreezeArguments ==
    \A k \in 1..Len(FreezeCalls) :
        /\ k <= Len(modules)
        /\ FreezeCalls[k].args[1] = NameModules
        /\ FreezeCalls[k].args[2] = modules[k][Len(modules[k])]
        /\ EndsWithDotPy(FreezeCalls[k].args[2])
        /\ [parts |-> <<NameModules, FreezeCalls[k].args[2]>>,
            kind |-> KindOf(FreezeCalls[k].args[2])] \in fs

C2_Witness ==
    /\ pc = "done"
    /\ \E k \in 1..Len(FreezeCalls) : FreezeCalls[k].args = <<NameModules, NameAPy>>

(* C3: the include call is the first call and precedes the scan; every later *)
(* call is a freeze_as_mpy call, and these follow the enumeration order.     *)
C3_Order ==
    /\ scanned => Len(calls) >= 1
    /\ \A k \in 1..Len(calls) : (k = 1) <=> (calls[k].fn = "include")
    /\ Len(FreezeCalls) <= Len(EnumeratedMatches)
    /\ \A k \in 1..Len(FreezeCalls) : FreezeCalls[k].args[2] = EnumeratedMatches[k]
    /\ pc = "done" => Len(FreezeCalls) = Len(EnumeratedMatches)

C3_Witness ==
    /\ pc = "done"
    /\ Len(calls) = 3
    /\ calls[2].args = <<NameModules, NameAPy>>
    /\ calls[3].args = <<NameModules, NameBPy>>

(* C4: only entries directly inside modules/ whose name matches *.py are    *)
(* registered, none of them twice, and a completed evaluation has registered *)
(* every one of them.                                                       *)
C4_RegisteredSet ==
    /\ \A k \in 1..Len(FreezeCalls) :
          \E e \in MatchingEntries : e.parts = FreezeCalls[k].args
    /\ \A k, l \in 1..Len(FreezeCalls) :
          FreezeCalls[k].args = FreezeCalls[l].args => k = l
    /\ pc = "done" =>
          \A e \in MatchingEntries : \E k \in 1..Len(FreezeCalls) : FreezeCalls[k].args = e.parts

C4_Witness ==
    /\ pc = "done"
    /\ Len(FreezeCalls) = 1
    /\ [parts |-> <<NameModules, NameCTxt>>, kind |-> "file"] \in fs
    /\ [parts |-> <<NameModules, NameUasyncio, NameCorePy>>, kind |-> "file"] \in fs

(* C5: a call that raised is the last call of the evaluation, which is then *)
(* aborted; after a failed include nothing was scanned.                     *)
C5_NoRecovery ==
    \A k \in 1..Len(calls) :
        calls[k].raised =>
            /\ k = Len(calls)
            /\ pc = "aborted"
            /\ err = "HostError"
            /\ calls[k].fn = "include" => ~scanned /\ modules = <<>>

C5_Witness ==
    /\ pc = "aborted"
    /\ Len(FreezeCalls) = 1
    /\ FreezeCalls[1].raised
    /\ Len(modules) >= 2

C7_Frame == [][fs' = fs /\ (scanned => scanned' /\ modules' = modules)]_vars

C7_Witness ==
    /\ Terminated
    /\ Len(FreezeCalls) >= 2
    /\ Cardinality(fs) >= 3

(* C8: the evaluation terminates, and the loop body runs at most once per   *)
(* discovered candidate.                                                    *)
C8_Terminates ==
    /\ <>Terminated
    /\ [](i - 1 <= Len(modules) /\ Len(FreezeCalls) <= Len(modules))

C8_Witness ==
    /\ pc = "done"
    /\ Len(modules) >= 2
    /\ Len(FreezeCalls) = Len(modules)

(* C9: every scanned path has exactly two components, so the unpacking of   *)
(* line 13 never raises.                                                    *)
C9_TwoParts ==
    /\ \A k \in 1..Len(modules) : Len(modules[k]) = 2
    /\ err # "ValueError"

C9_Witness ==
    /\ scanned
    /\ Len(modules) >= 2
    /\ i > Len(modules)

(* the calls of the script with line 10 removed *)
UnguardedCalls(ms) ==
    <<[fn |-> "include", args |-> <<IncludePath>>]>>
    \o [k \in 1..Len(ms) |-> [fn |-> "freeze_as_mpy", args |-> FreezeArgs(ms[k][1], ms[k][2])]]

CallSigs == [k \in 1..Len(calls) |-> [fn |-> calls[k].fn, args |-> calls[k].args]]

(* C10: the guard is true exactly when a candidate was found, and the calls *)
(* of the evaluation are those of the script without the guard.             *)
C10_GuardRedundant ==
    /\ pc = "guard" => (AnyModules(modules) <=> modules # <<>>)
    /\ scanned => IsPrefix(CallSigs, UnguardedCalls(modules))
    /\ pc = "done" => CallSigs = UnguardedCalls(modules)

C10_Witness ==
    /\ pc = "done"
    /\ Len(modules) >= 1
    /\ Len(calls) = Len(modules) + 1

====
